---- MODULE Spec2Model ----
(***************************************************************************)
(* Model of feed_generators/claude_blog.py: the blog listing scraper that  *)
(* resolves a date and a description per article page, validates the       *)
(* records and assembles a feed sorted by date.                            *)
(*                                                                         *)
(* Python strings are sequences of one-character strings, so that len,     *)
(* startswith, endswith, "in", strip, slicing and strptime are computed.   *)
(***************************************************************************)
EXTENDS Integers, Sequences, FiniteSets, TLC

VARIABLES
    pc,                 \* position of main(): start, parse, loop, assemble, save, done
    html_content,       \* the listing markup: its anchors in document order
    all_blog_links,     \* parse_blog_html: the anchors the selector kept
    idx,                \* parse_blog_html: index of the next anchor of the for loop
    seen_links,         \* parse_blog_html: seen_links
    articles,           \* parse_blog_html: articles
    unknown_structures, \* parse_blog_html: unknown_structures
    requests,           \* every article-page GET issued so far, in order
    clock,              \* seconds the wall clock has advanced since Epoch
    feed,               \* the entries of the FeedGenerator, in the order added
    save_invoked,       \* save_rss_feed has been called
    file,               \* the feed file on disk: "absent" or "written"
    result,             \* main(): "running", then "True" or "False"; "raised" if it raised
    raised_in,          \* the stage whose exception main() caught: "none" if none
    date_errors,        \* the date fetches that raised (line 102), as [url, at]
    desc_results,       \* what line 207 got for each candidate, as [link, found]
    r_url,              \* resolver call: the article_url argument
    r_resp,             \* resolver call: what requests.get answers
    r_date,             \* resolver call: extract_date_from_article_page's result
    r_desc,             \* resolver call: extract_description_from_article_page's result
    r_pc                \* resolver call: "input", "date", "description"

vars == <<pc, html_content, all_blog_links, idx, seen_links, articles,
          unknown_structures, requests, clock, feed, save_invoked, file, result,
          raised_in, date_errors, desc_results, r_url, r_resp, r_date, r_desc, r_pc>>

pipeline_vars == <<pc, html_content, all_blog_links, idx, seen_links, articles,
                   unknown_structures, requests, clock, feed, save_invoked, file, result,
                   raised_in, date_errors, desc_results>>

resolver_vars == <<r_url, r_resp, r_date, r_desc, r_pc>>

-----------------------------------------------------------------------------
(* Python values *)

\* None, distinct from every string
None == <<"None">>

\* truth value of an Optional[str]: None and "" are falsy
Truthy(v) == v # None /\ v # <<>>

Min(a, b) == IF a <= b THEN a ELSE b

\* str.startswith
StartsWith(s, p) == Len(s) >= Len(p) /\ SubSeq(s, 1, Len(p)) = p

\* str.endswith
EndsWith(s, p) == Len(s) >= Len(p) /\ SubSeq(s, Len(s) - Len(p) + 1, Len(s)) = p

\* the "in" operator on strings
Contains(s, p) == \E i \in 1..(Len(s) - Len(p) + 1) : SubSeq(s, i, i + Len(p) - 1) = p

Whitespace == {" ", "\n", "\t"}

\* the first position from i on that holds no whitespace (Len(s) + 1: none)
RECURSIVE SkipLeft(_, _)
SkipLeft(s, i) ==
    IF i > Len(s) \/ s[i] \notin Whitespace THEN i ELSE SkipLeft(s, i + 1)

\* the last position up to i that holds no whitespace (0: none)
RECURSIVE SkipRight(_, _)
SkipRight(s, i) ==
    IF i < 1 \/ s[i] \notin Whitespace THEN i ELSE SkipRight(s, i - 1)

\* str.strip
Strip(s) == SubSeq(s, SkipLeft(s, 1), SkipRight(s, Len(s)))

\* s[:n]
Take(s, n) == SubSeq(s, 1, Min(Len(s), n))

UpperChars == <<"A", "B", "C", "D", "E", "F", "G", "H", "I", "J", "K", "L", "M", "N", "O", "P", "Q", "R", "S", "T", "U", "V", "W", "X", "Y", "Z">>
LowerChars == <<"a", "b", "c", "d", "e", "f", "g", "h", "i", "j", "k", "l", "m", "n", "o", "p", "q", "r", "s", "t", "u", "v", "w", "x", "y", "z">>

UpperSet == {UpperChars[k] : k \in 1..Len(UpperChars)}

LowerOf == [c \in UpperSet |-> LowerChars[CHOOSE k \in 1..Len(UpperChars) : UpperChars[k] = c]]

\* str.lower on one character
LowerChar(c) == IF c \in UpperSet THEN LowerOf[c] ELSE c

Lower(s) == [i \in 1..Len(s) |-> LowerChar(s[i])]

Digits == <<"0", "1", "2", "3", "4", "5", "6", "7", "8", "9">>

DigitSet == {Digits[k] : k \in 1..Len(Digits)}

ValueOf == [c \in DigitSet |-> (CHOOSE k \in 1..Len(Digits) : Digits[k] = c) - 1]

IsDigit(c) == c \in DigitSet

DigitVal(c) == ValueOf[c]

\* s[i] or a character that matches nothing when i is past the end
At(s, i) == IF i >= 1 /\ i <= Len(s) THEN s[i] ELSE "EOS"

\* the number of digits at s[i..], at most max
RECURSIVE DigitRun(_, _, _)
DigitRun(s, i, max) ==
    IF max = 0 \/ ~IsDigit(At(s, i)) THEN 0 ELSE 1 + DigitRun(s, i + 1, max - 1)

\* the decimal value of s[i..i+n-1]
RECURSIVE DecVal(_, _, _)
DecVal(s, i, n) ==
    IF n = 0 THEN 0 ELSE DecVal(s, i, n - 1) * 10 + DigitVal(s[i + n - 1])

-----------------------------------------------------------------------------
(* datetime: <<year, month, day, hour, minute, second, microsecond>>, UTC *)

\* datetime.strptime raised ValueError
ValueError == <<>>

\* the fields strptime starts from
DefaultDate == <<1900, 1, 1, 0, 0, 0, 0>>

\* the instant the run starts at; the clock counts seconds from it
Epoch == <<2026, 1, 1, 0, 0, 0, 0>>

\* datetime.now(pytz.UTC) when the clock shows c
NowAt(c) == [Epoch EXCEPT ![6] = c]

\* a < b on datetimes
DateLess(a, b) ==
    \E k \in 1..7 : a[k] < b[k] /\ \A j \in 1..(k - 1) : a[j] = b[j]

MonthAbbr == << <<"j", "a", "n">>, <<"f", "e", "b">>, <<"m", "a", "r">>, <<"a", "p", "r">>, <<"m", "a", "y">>, <<"j", "u", "n">>,
                <<"j", "u", "l">>, <<"a", "u", "g">>, <<"s", "e", "p">>, <<"o", "c", "t">>, <<"n", "o", "v">>, <<"d", "e", "c">> >>

MonthFull == << <<"j", "a", "n", "u", "a", "r", "y">>, <<"f", "e", "b", "r", "u", "a", "r", "y">>, <<"m", "a", "r", "c", "h">>, <<"a", "p", "r", "i", "l">>, <<"m", "a", "y">>, <<"j", "u", "n", "e">>,
                <<"j", "u", "l", "y">>, <<"a", "u", "g", "u", "s", "t">>, <<"s", "e", "p", "t", "e", "m", "b", "e", "r">>, <<"o", "c", "t", "o", "b", "e", "r">>, <<"n", "o", "v", "e", "m", "b", "e", "r">>, <<"d", "e", "c", "e", "m", "b", "e", "r">> >>

\* the months whose name (case-insensitively) stands at s[i..]
MonthsAt(s, i, names) ==
    {k \in 1..12 : i + Len(names[k]) - 1 <= Len(s)
                   /\ Lower(SubSeq(s, i, i + Len(names[k]) - 1)) = names[k]}

IsLeap(y) == (y % 4 = 0 /\ y % 100 # 0) \/ y % 400 = 0

DaysInMonth(y, m) ==
    IF m = 2 THEN (IF IsLeap(y) THEN 29 ELSE 28)
    ELSE IF m \in {4, 6, 9, 11} THEN 30 ELSE 31

\* how many characters at s[i..] a numeric directive takes (0: no match),
\* following the alternatives of the directive's pattern in order
FieldWidth(dir, s, i) ==
    LET c1 == At(s, i)
        c2 == At(s, i + 1)
        nz(c) == IsDigit(c) /\ c # "0"
    IN  CASE dir = "Y" -> IF DigitRun(s, i, 4) = 4 THEN 4 ELSE 0
          [] dir = "m" -> IF c1 = "1" /\ c2 \in {"0", "1", "2"} THEN 2
                          ELSE IF c1 = "0" /\ nz(c2) THEN 2
                          ELSE IF nz(c1) THEN 1 ELSE 0
          [] dir = "d" -> IF c1 = "3" /\ c2 \in {"0", "1"} THEN 2
                          ELSE IF c1 \in {"1", "2"} /\ IsDigit(c2) THEN 2
                          ELSE IF c1 = "0" /\ nz(c2) THEN 2
                          ELSE IF nz(c1) THEN 1
                          ELSE IF c1 = " " /\ nz(c2) THEN 2 ELSE 0
          [] dir = "H" -> IF c1 = "2" /\ c2 \in {"0", "1", "2", "3"} THEN 2
                          ELSE IF c1 \in {"0", "1"} /\ IsDigit(c2) THEN 2
                          ELSE IF IsDigit(c1) THEN 1 ELSE 0
          [] dir = "M" -> IF c1 \in {"0", "1", "2", "3", "4", "5"} /\ IsDigit(c2) THEN 2
                          ELSE IF IsDigit(c1) THEN 1 ELSE 0
          [] dir = "S" -> IF c1 = "6" /\ c2 \in {"0", "1"} THEN 2
                          ELSE IF c1 \in {"0", "1", "2", "3", "4", "5"} /\ IsDigit(c2) THEN 2
                          ELSE IF IsDigit(c1) THEN 1 ELSE 0
          [] dir = "f" -> DigitRun(s, i, 6)
          [] OTHER -> 0

\* the value of the w characters a numeric directive took
FieldValue(dir, s, i, w) ==
    IF dir = "f" THEN DecVal(SubSeq(s, i, i + w - 1) \o <<"0", "0", "0", "0", "0", "0">>, 1, 6)
    ELSE IF s[i] = " " THEN DecVal(s, i + 1, w - 1)
    ELSE DecVal(s, i, w)

\* the position of a directive's field in a datetime
FieldIndex(dir) ==
    CASE dir = "Y" -> 1 [] dir = "m" -> 2 [] dir = "d" -> 3 [] dir = "H" -> 4
      [] dir = "M" -> 5 [] dir = "S" -> 6 [] dir = "f" -> 7

\* match s[i..] against fmt[j..], filling acc; ValueError when it does not match
RECURSIVE StrptimeFrom(_, _, _, _, _)
StrptimeFrom(s, i, fmt, j, acc) ==
    IF j > Len(fmt) THEN (IF i > Len(s) THEN acc ELSE ValueError)
    ELSE IF fmt[j] = "%" THEN
        LET dir == At(fmt, j + 1)
        IN  IF dir \in {"b", "B"} THEN
                LET names == IF dir = "b" THEN MonthAbbr ELSE MonthFull
                    ms == MonthsAt(s, i, names)
                IN  IF ms = {} THEN ValueError
                    ELSE LET k == CHOOSE k \in ms : TRUE
                         IN  StrptimeFrom(s, i + Len(names[k]), fmt, j + 2,
                                          [acc EXCEPT ![2] = k])
            ELSE
                LET w == FieldWidth(dir, s, i)
                IN  IF w = 0 THEN ValueError
                    ELSE StrptimeFrom(s, i + w, fmt, j + 2,
                                      [acc EXCEPT ![FieldIndex(dir)] = FieldValue(dir, s, i, w)])
    ELSE IF fmt[j] \in Whitespace THEN
        \* whitespace in a format matches one or more whitespace characters
        LET run == CHOOSE n \in 0..Len(s) :
                      /\ \A k \in 0..(n - 1) : At(s, i + k) \in Whitespace
                      /\ At(s, i + n) \notin Whitespace
        IN  IF run = 0 THEN ValueError ELSE StrptimeFrom(s, i + run, fmt, j + 1, acc)
    ELSE IF LowerChar(At(s, i)) = LowerChar(fmt[j]) THEN StrptimeFrom(s, i + 1, fmt, j + 1, acc)
    ELSE ValueError

\* datetime.strptime(date_str, fmt).replace(tzinfo=pytz.UTC), or ValueError
Strptime(date_str, fmt) ==
    LET d == StrptimeFrom(date_str, 1, fmt, 1, DefaultDate)
    IN  IF d = ValueError THEN ValueError
        ELSE IF d[3] > DaysInMonth(d[1], d[2]) \/ d[6] > 59 THEN ValueError
        ELSE d


-----------------------------------------------------------------------------
(* Markup.  A parsed document (BeautifulSoup) is the sequence of its        *)
(* elements in document order; an element has a tag, attributes (a set of  *)
(* <<name, value>> pairs) and text.                                         *)

Elem(tag, attrs, text) == [tag |-> tag, attrs |-> attrs, text |-> text]

\* the element carries the attribute
Has(elem, attr) == \E p \in elem.attrs : p[1] = attr

\* Tag.get(attr): the attribute's value, None when absent
Get(elem, attr) ==
    IF Has(elem, attr) THEN (CHOOSE p \in elem.attrs : p[1] = attr)[2] ELSE None

\* Tag.get_text(strip=True)
GetText(elem) == Strip(elem.text)

\* Python's "a or b" on Optional[str]
Or(a, b) == IF Truthy(a) THEN a ELSE b

\* a CSS selector tag[attr], tag[attr="val"] or tag[attr*="val"]
Selector(tag, attr, op, val) == [tag |-> tag, attr |-> attr, op |-> op, val |-> val]

Matches(elem, sel) ==
    /\ elem.tag = sel.tag
    /\ Has(elem, sel.attr)
    /\ CASE sel.op = "exists" -> TRUE
         [] sel.op = "=" -> Get(elem, sel.attr) = sel.val
         [] sel.op = "*=" -> Contains(Get(elem, sel.attr), sel.val)

\* soup.select(selector): the matching elements in document order
Select(soup, sel) ==
    LET F[i \in 0..Len(soup)] ==
            IF i = 0 THEN <<>>
            ELSE IF Matches(soup[i], sel) THEN Append(F[i - 1], soup[i]) ELSE F[i - 1]
    IN  F[Len(soup)]

\* soup.select_one(selector) as a sequence: <<first match>>, or <<>> for None
SelectOne(soup, sel) == Take(Select(soup, sel), 1)

\* soup.find(tag, attrs={attr: val}) as a sequence: <<first match>>, or <<>> for None
Find(soup, tag, attr, val) == SelectOne(soup, Selector(tag, attr, "=", val))

\* soup.find_all(tag)
FindAll(soup, tag) ==
    LET F[i \in 0..Len(soup)] ==
            IF i = 0 THEN <<>>
            ELSE IF soup[i].tag = tag THEN Append(F[i - 1], soup[i]) ELSE F[i - 1]
    IN  F[Len(soup)]

-----------------------------------------------------------------------------
(* HTTP.  requests.get(url) followed by raise_for_status() either raises   *)
(* (a response with ok = FALSE) or gives the page.                         *)

RequestException == [ok |-> FALSE, page |-> <<>>]

Response(page) == [ok |-> TRUE, page |-> page]

Origin == <<"h", "t", "t", "p", "s", ":", "/", "/", "c", "l", "a", "u", "d", "e", ".", "c", "o", "m">>

\* lines 58-59 and 114-115: "Ensure full URL"
FullUrl(article_url) ==
    IF StartsWith(article_url, <<"/">>) THEN Origin \o article_url ELSE article_url

-----------------------------------------------------------------------------
(* extract_date_from_article_page *)

\* datetime result meaning "no date"
NoDate == <<>>

date_selectors == <<
    Selector("time", "datetime", "exists", <<>>),
    Selector("meta", "property", "=", <<"a", "r", "t", "i", "c", "l", "e", ":", "p", "u", "b", "l", "i", "s", "h", "e", "d", "_", "t", "i", "m", "e">>),
    Selector("meta", "name", "=", <<"p", "u", "b", "l", "i", "c", "a", "t", "i", "o", "n", "_", "d", "a", "t", "e">>),
    Selector("span", "class", "*=", <<"d", "a", "t", "e">>),
    Selector("p", "class", "*=", <<"d", "a", "t", "e">>) >>

date_formats == <<
    <<"%", "Y", "-", "%", "m", "-", "%", "d", "T", "%", "H", ":", "%", "M", ":", "%", "S", ".", "%", "f", "Z">>,
    <<"%", "Y", "-", "%", "m", "-", "%", "d", "T", "%", "H", ":", "%", "M", ":", "%", "S", "Z">>,
    <<"%", "Y", "-", "%", "m", "-", "%", "d", "T", "%", "H", ":", "%", "M", ":", "%", "S">>,
    <<"%", "Y", "-", "%", "m", "-", "%", "d">>,
    <<"%", "b", " ", "%", "d", ",", " ", "%", "Y">>,
    <<"%", "B", " ", "%", "d", ",", " ", "%", "Y">> >>

\* line 78: elem.get('datetime') or elem.get('content') or elem.get_text(strip=True)
DateStr(elem) == Or(Get(elem, "datetime"), Or(Get(elem, "content"), GetText(elem)))

\* lines 90-95: the first format, from the k-th on, that parses date_str
RECURSIVE TryFormats(_, _)
TryFormats(date_str, k) ==
    IF k > Len(date_formats) THEN NoDate
    ELSE LET date == Strptime(date_str, date_formats[k])
         IN  IF date # ValueError THEN date ELSE TryFormats(date_str, k + 1)

\* the selector loop stopping at the first selector that yields a string,
\* whether a format parses it or not
RECURSIVE StopAtFirstString(_, _)
StopAtFirstString(soup, k) ==
    IF k > Len(date_selectors) THEN NoDate
    ELSE LET elem == SelectOne(soup, date_selectors[k])
         IN  IF elem = <<>> THEN StopAtFirstString(soup, k + 1)
             ELSE IF Truthy(DateStr(elem[1])) THEN TryFormats(DateStr(elem[1]), 1)
             ELSE StopAtFirstString(soup, k + 1)

\* lines 74-95: the selector loop from the k-th selector on; NoDate when the
\* loop ends without a return
RECURSIVE TrySelectors(_, _)
TrySelectors(soup, k) ==
    IF k > Len(date_selectors) THEN NoDate
    ELSE LET elem == SelectOne(soup, date_selectors[k])
         IN  IF elem = <<>> THEN TrySelectors(soup, k + 1)
             ELSE LET date_str == DateStr(elem[1])
                      date == IF Truthy(date_str) THEN TryFormats(date_str, 1) ELSE NoDate
                  IN  IF date # NoDate THEN date ELSE TrySelectors(soup, k + 1)

\* a resolver that gives no date when the fetch raised
extract_date_none_on_error(resp, now) ==
    IF ~resp.ok THEN NoDate
    ELSE LET date == TrySelectors(resp.page, 1)
         IN  IF date # NoDate THEN date ELSE now

\* lines 50-103; resp is the answer to the GET, now is datetime.now(pytz.UTC)
extract_date_from_article_page(resp, now) ==
    IF ~resp.ok THEN now
    ELSE LET date == TrySelectors(resp.page, 1)
         IN  IF date # NoDate THEN date ELSE now

-----------------------------------------------------------------------------
(* extract_description_from_article_page *)

MinParagraphLen == 50

MaxDescriptionLen == 500

\* lines 129-133: the first paragraph, from the k-th on, long enough
RECURSIVE FirstParagraph(_, _)
FirstParagraph(paragraphs, k) ==
    IF k > Len(paragraphs) THEN <<>>
    ELSE LET text == GetText(paragraphs[k])
         IN  IF Truthy(text) /\ Len(text) > MinParagraphLen
             THEN Take(text, MaxDescriptionLen)
             ELSE FirstParagraph(paragraphs, k + 1)

\* lines 122-123: a Tag is truthy whatever its attributes, so "or" falls to
\* the Open-Graph tag only when no name="description" tag exists
MetaDesc(soup) ==
    LET by_name == Find(soup, "meta", "name", <<"d", "e", "s", "c", "r", "i", "p", "t", "i", "o", "n">>)
    IN  IF by_name # <<>> THEN by_name ELSE Find(soup, "meta", "property", <<"o", "g", ":", "d", "e", "s", "c", "r", "i", "p", "t", "i", "o", "n">>)

\* lines 106-139
extract_description_from_article_page(resp) ==
    IF ~resp.ok THEN <<>>
    ELSE LET meta_desc == MetaDesc(resp.page)
         IN  IF meta_desc # <<>> /\ Truthy(Get(meta_desc[1], "content"))
             THEN Get(meta_desc[1], "content")
             ELSE FirstParagraph(FindAll(resp.page, "p"), 1)


-----------------------------------------------------------------------------
(* extract_title, validate_article *)

MinTitleLen == 10

MinValidTitleLen == 5

\* lines 41-47
extract_title(card) ==
    LET text == GetText(card)
    IN  IF Truthy(text) /\ Len(text) > MinTitleLen /\ ~StartsWith(text, <<"h", "t", "t", "p">>)
        THEN text ELSE None

\* line 198
NavigationLabels == {<<"B", "l", "o", "g">>, <<"H", "o", "m", "e">>, <<"R", "e", "a", "d", " ", "m", "o", "r", "e">>, <<"L", "e", "a", "r", "n", " ", "m", "o", "r", "e">>}

\* the validator with its link check left out
validate_without_link(article) ==
    IF ~Truthy(article.title) \/ Len(article.title) < MinValidTitleLen THEN FALSE
    ELSE IF article.date = NoDate THEN FALSE
    ELSE TRUE

\* lines 142-156
validate_article(article) ==
    IF ~Truthy(article.title) \/ Len(article.title) < MinValidTitleLen THEN FALSE
    ELSE IF ~Truthy(article.link)
            \/ ~(StartsWith(article.link, <<"h", "t", "t", "p">>) \/ StartsWith(article.link, <<"/">>)) THEN FALSE
    ELSE IF article.date = NoDate THEN FALSE
    ELSE TRUE

\* line 178: "Build full URL"
BuildLink(href) == IF StartsWith(href, <<"/">>) THEN Origin \o href ELSE href

\* line 185: the main blog page and category pages
IsIndexPage(link) ==
    EndsWith(link, <<"/", "b", "l", "o", "g">>) \/ EndsWith(link, <<"/", "b", "l", "o", "g", "/">>) \/ Contains(link, <<"/", "c", "a", "t", "e", "g", "o", "r", "y", "/">>)

\* the duplicate check left out
NeverDuplicate(link, seen) == FALSE

\* lines 180-182: "Skip duplicates"
IsDuplicate(link, seen) == link \in seen

\* the anchor text taken as the title without any check
AnyTextIsTitle(card) == [verdict |-> "ok", title |-> GetText(card)]

\* lines 190-199: the title of a card and what the loop does with it
CheckTitle(card) ==
    LET title == extract_title(card)
    IN  IF ~Truthy(title) THEN [verdict |-> "unknown", title |-> title]
        ELSE IF title \in NavigationLabels THEN [verdict |-> "navigation", title |-> title]
        ELSE [verdict |-> "ok", title |-> title]

\* the description taken as found, without the default
DescriptionAsFound(found, title) == found

\* lines 208-209: the description defaults to the title
DescriptionOrTitle(found, title) == IF ~Truthy(found) THEN title ELSE found

\* line 168
BlogLinkSelector == Selector("a", "href", "*=", <<"/", "b", "l", "o", "g", "/">>)

-----------------------------------------------------------------------------
(* generate_rss_feed *)

\* x inserted in front of the elements of its own date: ties come out reversed
RECURSIVE InsertBeforeEqual(_, _)
InsertBeforeEqual(sorted, x) ==
    IF sorted = <<>> THEN <<x>>
    ELSE IF ~DateLess(x.date, sorted[1].date) THEN <<x>> \o sorted
    ELSE <<sorted[1]>> \o InsertBeforeEqual(Tail(sorted), x)

\* x inserted into a sequence sorted by date, newest first, behind every
\* element that is not older: the sort is stable
RECURSIVE InsertByDate(_, _)
InsertByDate(sorted, x) ==
    IF sorted = <<>> THEN <<x>>
    ELSE IF DateLess(sorted[1].date, x.date) THEN <<x>> \o sorted
    ELSE <<sorted[1]>> \o InsertByDate(Tail(sorted), x)

\* line 254: sorted(articles, key=lambda x: x["date"], reverse=True)
SortedArticles(as) ==
    LET F[i \in 0..Len(as)] == IF i = 0 THEN <<>> ELSE InsertByDate(F[i - 1], as[i])
    IN  F[Len(as)]

\* lines 258-264: the entry added for an article
Entry(article) ==
    [title |-> article.title, description |-> article.description,
     link |-> article.link, published |-> article.date,
     category |-> article.category, id |-> article.link]

\* lines 253-264: the entries in the order fg.add_entry() is called
FeedEntries(as) ==
    LET sorted_articles == SortedArticles(as)
    IN  [i \in 1..Len(sorted_articles) |-> Entry(sorted_articles[i])]

-----------------------------------------------------------------------------
(* Inputs: the article pages the site may serve *)

\* the longest article page explored, in elements
MaxElems == 3

\* the text of a paragraph n characters long
Filler(n) == [i \in 1..n |-> "x"]

PageElems == {
    Elem("time", {<<"datetime", <<"2", "0", "2", "6", "-", "0", "1", "-", "0", "1", "T", "0", "0", ":", "0", "0", ":", "0", "1", "Z">>>>}, <<"J", "a", "n", " ", "1">>),
    Elem("time", {<<"datetime", <<"y", "e", "s", "t", "e", "r", "d", "a", "y">>>>}, <<"y", "e", "s", "t", "e", "r", "d", "a", "y">>),
    Elem("time", {<<"datetime", <<>>>>}, <<" ", "2", "0", "2", "6", "-", "0", "1", "-", "0", "1", "T", "0", "0", ":", "0", "0", ":", "0", "1", " ">>),
    Elem("meta", {<<"property", <<"a", "r", "t", "i", "c", "l", "e", ":", "p", "u", "b", "l", "i", "s", "h", "e", "d", "_", "t", "i", "m", "e">>>>,
                  <<"content", <<"2", "0", "2", "5", "-", "1", "2", "-", "3", "1", "T", "2", "3", ":", "5", "9", ":", "5", "9", ".", "5", "0", "0", "Z">>>>}, <<>>),
    Elem("meta", {<<"name", <<"p", "u", "b", "l", "i", "c", "a", "t", "i", "o", "n", "_", "d", "a", "t", "e">>>>, <<"content", <<"2", "0", "2", "6", "-", "0", "1", "-", "0", "1">>>>}, <<>>),
    Elem("span", {<<"class", <<"p", "o", "s", "t", "-", "d", "a", "t", "e">>>>}, <<" ", "J", "a", "n", " ", "2", ",", " ", "2", "0", "2", "6", " ">>),
    Elem("p", {<<"class", <<"d", "a", "t", "e">>>>}, <<"J", "a", "n", "u", "a", "r", "y", " ", "2", ",", " ", "2", "0", "2", "6">>),
    Elem("meta", {<<"name", <<"d", "e", "s", "c", "r", "i", "p", "t", "i", "o", "n">>>>, <<"content", <<"A", " ", "s", "u", "m", "m", "a", "r", "y">>>>}, <<>>),
    Elem("meta", {<<"name", <<"d", "e", "s", "c", "r", "i", "p", "t", "i", "o", "n">>>>, <<"content", <<>>>>}, <<>>),
    Elem("meta", {<<"property", <<"o", "g", ":", "d", "e", "s", "c", "r", "i", "p", "t", "i", "o", "n">>>>, <<"content", <<"A", "n", " ", "O", "G", " ", "s", "u", "m", "m", "a", "r", "y">>>>}, <<>>),
    Elem("p", {}, Filler(MinParagraphLen)),
    Elem("p", {}, <<" ">> \o Filler(MinParagraphLen + 1) \o <<"\n">>),
    Elem("p", {}, Filler(MaxDescriptionLen + 1)) }

RECURSIVE SeqsUpTo(_, _)
SeqsUpTo(S, n) ==
    IF n = 0 THEN {<<>>}
    ELSE LET shorter == SeqsUpTo(S, n - 1)
         IN  shorter \cup {Append(q, e) : q \in shorter, e \in S}

ArticlePages == SeqsUpTo(PageElems, MaxElems)

\* the URLs requests.get can send a request to
HasScheme(url) == StartsWith(url, <<"h", "t", "t", "p", ":", "/", "/">>) \/ StartsWith(url, <<"h", "t", "t", "p", "s", ":", "/", "/">>)

\* what a GET of url may answer, the pages drawn from the set pages: a URL
\* without a scheme makes requests.get raise MissingSchema
Responses(url, pages) ==
    {RequestException} \cup (IF HasScheme(url) THEN {Response(p) : p \in pages} ELSE {})

-----------------------------------------------------------------------------
(* Initial state *)

Init ==
    /\ pc = "start"
    /\ html_content = <<>>
    /\ all_blog_links = <<>>
    /\ idx = 0
    /\ seen_links = {}
    /\ articles = <<>>
    /\ unknown_structures = 0
    /\ requests = <<>>
    /\ clock = 0
    /\ feed = <<>>
    /\ save_invoked = FALSE
    /\ file = "absent"
    /\ result = "running"
    /\ raised_in = "none"
    /\ date_errors = {}
    /\ desc_results = {}
    /\ r_url = <<>>
    /\ r_resp = RequestException
    /\ r_date = NoDate
    /\ r_desc = <<>>
    /\ r_pc = "idle"

-----------------------------------------------------------------------------
(* The resolvers called on their own: any article URL, any answer *)

ResolverUrls == {<<"/", "b", "l", "o", "g", "/", "a">>, <<".", ".", "/", "b", "l", "o", "g", "/", "x">>}

\* extract_date_from_article_page(url)
CallExtractDate ==
    /\ r_pc = "idle"
    /\ \E url \in ResolverUrls :
         \E resp \in Responses(FullUrl(url), ArticlePages) :
            /\ r_url' = url
            /\ r_resp' = resp
            /\ r_date' = extract_date_from_article_page(resp, NowAt(clock))
    /\ r_pc' = "date"
    /\ UNCHANGED <<r_desc, pipeline_vars>>

\* extract_description_from_article_page(url)
CallExtractDescription ==
    /\ r_pc = "idle"
    /\ \E url \in ResolverUrls :
         \E resp \in Responses(FullUrl(url), ArticlePages) :
            /\ r_url' = url
            /\ r_resp' = resp
            /\ r_desc' = extract_description_from_article_page(resp)
    /\ r_pc' = "description"
    /\ UNCHANGED <<r_date, pipeline_vars>>

NextResolvers == CallExtractDate \/ CallExtractDescription

SpecResolvers == Init /\ [][NextResolvers]_vars


-----------------------------------------------------------------------------
(* Inputs: the listing page *)

\* the longest listing explored, in anchors
MaxAnchors == 3

Anchor(href, text) == Elem("a", {<<"href", href>>}, text)

ListingAnchors == {
    Anchor(<<"/", "b", "l", "o", "g", "/", "a">>, <<"C", "l", "a", "u", "d", "e", " ", "n", "e", "w", "s">>),
    Anchor(<<"h", "t", "t", "p", "s", ":", "/", "/", "c", "l", "a", "u", "d", "e", ".", "c", "o", "m", "/", "b", "l", "o", "g", "/", "a">>, <<" ", "S", "e", "c", "o", "n", "d", " ", "t", "i", "t", "l", "e", "\n">>),
    Anchor(<<"/", "b", "l", "o", "g", "/", "a">>, <<>>),
    Anchor(<<"/", "b", "l", "o", "g", "/", "b">>, <<"B", "l", "o", "g", " ", "u", "p", "d", "a", "t", "e">>),
    Anchor(<<"/", "b", "l", "o", "g", "/", "b">>, <<"h", "t", "t", "p", "s", ":", "/", "/", "c", "l", "a", "u", "d", "e", ".", "c", "o", "m", "/", "b", "l", "o", "g", "/", "b">>),
    Anchor(<<"/", "b", "l", "o", "g", "/", "c">>, <<"R", "e", "a", "d", " ", "m", "o", "r", "e">>),
    Anchor(<<"/", "b", "l", "o", "g", "/", "c">>, <<"T", "h", "i", "r", "d", " ", "a", "r", "t", "i", "c", "l", "e">>),
    Anchor(<<"/", "b", "l", "o", "g", "/">>, <<"L", "e", "a", "r", "n", " ", "m", "o", "r", "e">>),
    Anchor(<<"/", "b", "l", "o", "g", "/", "c", "a", "t", "e", "g", "o", "r", "y", "/", "n", "e", "w", "s">>, <<"P", "r", "o", "d", "u", "c", "t", " ", "n", "e", "w", "s">>),
    Anchor(<<".", ".", "/", "b", "l", "o", "g", "/", "x">>, <<"R", "e", "l", "a", "t", "i", "v", "e", " ", "o", "n", "e">>),
    Anchor(<<"/", "a", "b", "o", "u", "t">>, <<"A", "b", "o", "u", "t", " ", "C", "l", "a", "u", "d", "e">>) }

Listings == SeqsUpTo(ListingAnchors, MaxAnchors)

\* the article pages the pipeline is run against
PipelinePages == {
    << Elem("time", {<<"datetime", <<"2", "0", "2", "6", "-", "0", "1", "-", "0", "1", "T", "0", "0", ":", "0", "0", ":", "0", "1", "Z">>>>}, <<"J", "a", "n", " ", "1">>),
       Elem("meta", {<<"name", <<"d", "e", "s", "c", "r", "i", "p", "t", "i", "o", "n">>>>, <<"content", <<"A", " ", "s", "u", "m", "m", "a", "r", "y">>>>}, <<>>) >>,
    << Elem("meta", {<<"name", <<"d", "e", "s", "c", "r", "i", "p", "t", "i", "o", "n">>>>, <<"content", <<>>>>}, <<>>) >> }

-----------------------------------------------------------------------------
(* main() and the stages it runs *)

\* an exception escaping extract_date_from_article_page
Raised == <<-1>>

\* lines 315-317: what main() answers when the given stage raised
MainExcept(stage) == "False"

\* lines 297, 27-35: fetch_blog_content returns the listing
FetchListing ==
    /\ pc = "start"
    /\ \E page \in Listings : html_content' = page
    /\ pc' = "parse"
    /\ UNCHANGED <<all_blog_links, idx, seen_links, articles, unknown_structures,
                   requests, clock, feed, save_invoked, file, result, raised_in,
                   date_errors, desc_results, resolver_vars>>

\* lines 36-38, 315-317: fetch_blog_content raises, main returns False
FetchListingFails ==
    /\ pc = "start"
    /\ pc' = "done"
    /\ result' = MainExcept("fetch")
    /\ raised_in' = "fetch"
    /\ UNCHANGED <<html_content, all_blog_links, idx, seen_links, articles,
                   unknown_structures, requests, clock, feed, save_invoked, file,
                   date_errors, desc_results, resolver_vars>>

\* lines 161-170: parse_blog_html up to its loop
ParseBegin ==
    /\ pc = "parse"
    /\ all_blog_links' = Select(html_content, BlogLinkSelector)
    /\ idx' = 1
    /\ articles' = <<>>
    /\ seen_links' = {}
    /\ unknown_structures' = 0
    /\ pc' = "loop"
    /\ UNCHANGED <<html_content, requests, clock, feed, save_invoked, file, result,
                   raised_in, date_errors, desc_results, resolver_vars>>

\* lines 162, 232-234, 315-317: the parser rejects the markup, main returns False
ParseFails ==
    /\ pc = "parse"
    /\ pc' = "done"
    /\ result' = MainExcept("parse")
    /\ raised_in' = "parse"
    /\ UNCHANGED <<html_content, all_blog_links, idx, seen_links, articles,
                   unknown_structures, requests, clock, feed, save_invoked, file,
                   date_errors, desc_results, resolver_vars>>

\* lines 172-224: one iteration of the loop over all_blog_links.  Each GET
\* takes one tick of the clock.
ParseAnchor ==
    /\ pc = "loop"
    /\ idx <= Len(all_blog_links)
    /\ LET card == all_blog_links[idx]
           href == IF Has(card, "href") THEN Get(card, "href") ELSE <<>>
           link == BuildLink(href)
           checked == CheckTitle(card)
           title == checked.title
           url == FullUrl(link)
       IN  IF ~Truthy(href) \/ IsDuplicate(link, seen_links) \/ IsIndexPage(link)
           THEN /\ idx' = idx + 1
                /\ UNCHANGED <<pc, seen_links, articles, unknown_structures, requests,
                               clock, result, raised_in, date_errors, desc_results>>
           ELSE IF checked.verdict = "unknown"
           THEN /\ idx' = idx + 1
                /\ seen_links' = seen_links \cup {link}
                /\ unknown_structures' = unknown_structures + 1
                /\ UNCHANGED <<pc, articles, requests, clock, result, raised_in,
                               date_errors, desc_results>>
           ELSE IF checked.verdict = "navigation"
           THEN /\ idx' = idx + 1
                /\ seen_links' = seen_links \cup {link}
                /\ UNCHANGED <<pc, articles, unknown_structures, requests, clock, result,
                               raised_in, date_errors, desc_results>>
           ELSE \E date_resp \in Responses(url, PipelinePages) :
                \E desc_resp \in Responses(url, PipelinePages) :
                   LET date == extract_date_from_article_page(date_resp, NowAt(clock + 1))
                       found == extract_description_from_article_page(desc_resp)
                       description == DescriptionOrTitle(found, title)
                       article == [title |-> title, link |-> link, date |-> date,
                                   description |-> description, category |-> <<"B", "l", "o", "g">>]
                   IN  /\ seen_links' = seen_links \cup {link}
                       /\ date_errors' =
                             IF date_resp.ok THEN date_errors
                             ELSE date_errors \cup {[url |-> url, at |-> clock + 1]}
                       /\ IF date = Raised
                          THEN \* lines 232-234, 315-317: the exception leaves the loop
                               /\ requests' = Append(requests, [url |-> url, at |-> clock])
                               /\ clock' = clock + 1
                               /\ pc' = "done"
                               /\ result' = MainExcept("parse")
                               /\ raised_in' = "parse"
                               /\ UNCHANGED <<idx, articles, unknown_structures, desc_results>>
                          ELSE /\ requests' = requests \o <<[url |-> url, at |-> clock],
                                                            [url |-> url, at |-> clock + 1]>>
                               /\ clock' = clock + 2
                               /\ desc_results' =
                                     desc_results \cup {[link |-> link, found |-> found]}
                               /\ idx' = idx + 1
                               /\ IF validate_article(article)
                                  THEN /\ articles' = Append(articles, article)
                                       /\ UNCHANGED unknown_structures
                                  ELSE /\ unknown_structures' = unknown_structures + 1
                                       /\ UNCHANGED articles
                               /\ UNCHANGED <<pc, result, raised_in>>
    /\ UNCHANGED <<html_content, all_blog_links, feed, save_invoked, file, resolver_vars>>

\* lines 226-230, 302: the loop is over, parse_blog_html returns articles
ParseReturns ==
    /\ pc = "loop"
    /\ idx > Len(all_blog_links)
    /\ articles # <<>>
    /\ pc' = "assemble"
    /\ UNCHANGED <<html_content, all_blog_links, idx, seen_links, articles,
                   unknown_structures, requests, clock, feed, save_invoked, file, result,
                   raised_in, date_errors, desc_results, resolver_vars>>

\* the emptiness check of line 302 left out: the run goes on to the assembly
ProceedWithoutArticles ==
    /\ pc = "loop"
    /\ idx > Len(all_blog_links)
    /\ articles = <<>>
    /\ pc' = "assemble"
    /\ UNCHANGED <<html_content, all_blog_links, idx, seen_links, articles,
                   unknown_structures, requests, clock, feed, save_invoked, file, result,
                   raised_in, date_errors, desc_results, resolver_vars>>

\* lines 302-304: no articles, main returns False
NoArticles ==
    /\ pc = "loop"
    /\ idx > Len(all_blog_links)
    /\ articles = <<>>
    /\ pc' = "done"
    /\ result' = "False"
    /\ UNCHANGED <<html_content, all_blog_links, idx, seen_links, articles,
                   unknown_structures, requests, clock, feed, save_invoked, file,
                   raised_in, date_errors, desc_results, resolver_vars>>

\* lines 307, 237-267: generate_rss_feed(articles, feed_name)
GenerateFeed ==
    /\ pc = "assemble"
    /\ feed' = FeedEntries(articles)
    /\ pc' = "save"
    /\ UNCHANGED <<html_content, all_blog_links, idx, seen_links, articles,
                   unknown_structures, requests, clock, save_invoked, file, result,
                   raised_in, date_errors, desc_results, resolver_vars>>

\* lines 269-271, 315-317: generate_rss_feed raises, main returns False
GenerateFails ==
    /\ pc = "assemble"
    /\ pc' = "done"
    /\ result' = MainExcept("assemble")
    /\ raised_in' = "assemble"
    /\ UNCHANGED <<html_content, all_blog_links, idx, seen_links, articles,
                   unknown_structures, requests, clock, feed, save_invoked, file,
                   date_errors, desc_results, resolver_vars>>

\* lines 310-313, 274-286: save_rss_feed writes the file, main returns True
SaveFeed ==
    /\ pc = "save"
    /\ save_invoked' = TRUE
    /\ file' = "written"
    /\ pc' = "done"
    /\ result' = "True"
    /\ UNCHANGED <<html_content, all_blog_links, idx, seen_links, articles,
                   unknown_structures, requests, clock, feed, raised_in, date_errors,
                   desc_results, resolver_vars>>

\* lines 288-290, 315-317: save_rss_feed raises before or while it writes,
\* main returns False
SaveFails ==
    /\ pc = "save"
    /\ save_invoked' = TRUE
    /\ file' \in {"absent", "partial"}
    /\ pc' = "done"
    /\ result' = MainExcept("save")
    /\ raised_in' = "save"
    /\ UNCHANGED <<html_content, all_blog_links, idx, seen_links, articles,
                   unknown_structures, requests, clock, feed, date_errors, desc_results, resolver_vars>>

Next ==
    \/ FetchListing
    \/ FetchListingFails
    \/ ParseBegin
    \/ ParseFails
    \/ ParseAnchor
    \/ ParseReturns
    \/ NoArticles
    \/ GenerateFeed
    \/ GenerateFails
    \/ SaveFeed
    \/ SaveFails

Spec == Init /\ [][Next]_vars


-----------------------------------------------------------------------------
(* Properties of the listing parser *)

\* the loop of parse_blog_html has gone through every selected anchor
ParseDone == pc \in {"loop", "assemble", "save", "done"} /\ idx > Len(all_blog_links)

\* the absolute link of the k-th selected anchor
LinkOf(k) == BuildLink(Get(all_blog_links[k], "href"))

\* the stripped text of the k-th selected anchor
TextOf(k) == Strip(all_blog_links[k].text)

\* a text the title extraction accepts: non-empty, longer than 10
\* characters, not starting with 'http'
Acceptable(text) == text # <<>> /\ Len(text) > 10 /\ SubSeq(text, 1, 4) # <<"h", "t", "t", "p">>

\* the records emitted for a link
RecordsFor(link) == {i \in 1..Len(articles) : articles[i].link = link}

\* the listing is three anchors to /blog/a, /blog/a and /blog/b, in root-relative
\* or absolute form, each with an acceptable title
ListingAAB ==
    /\ Len(html_content) = 3
    /\ Len(all_blog_links) = 3
    /\ LinkOf(1) = <<"h", "t", "t", "p", "s", ":", "/", "/", "c", "l", "a", "u", "d", "e", ".", "c", "o", "m", "/", "b", "l", "o", "g", "/", "a">>
    /\ LinkOf(2) = <<"h", "t", "t", "p", "s", ":", "/", "/", "c", "l", "a", "u", "d", "e", ".", "c", "o", "m", "/", "b", "l", "o", "g", "/", "a">>
    /\ LinkOf(3) = <<"h", "t", "t", "p", "s", ":", "/", "/", "c", "l", "a", "u", "d", "e", ".", "c", "o", "m", "/", "b", "l", "o", "g", "/", "b">>
    /\ \A k \in 1..3 : Acceptable(TextOf(k))

\* C1: no two records of parse_blog_html carry the same absolute link, at any
\* point of the parse and whatever the anchors are; and a listing of anchors to
\* /blog/a, /blog/a and /blog/b with acceptable titles yields exactly two
\* records, one for a and one for b.
C1_UniqueLinks ==
    /\ \A i, j \in 1..Len(articles) : articles[i].link = articles[j].link => i = j
    /\ (ParseDone /\ ListingAAB) =>
          /\ Len(articles) = 2
          /\ articles[1].link = <<"h", "t", "t", "p", "s", ":", "/", "/", "c", "l", "a", "u", "d", "e", ".", "c", "o", "m", "/", "b", "l", "o", "g", "/", "a">>
          /\ articles[2].link = <<"h", "t", "t", "p", "s", ":", "/", "/", "c", "l", "a", "u", "d", "e", ".", "c", "o", "m", "/", "b", "l", "o", "g", "/", "b">>

\* the parse of /blog/a, absolute /blog/a, /blog/b is over, with two records
C1_Witness ==
    /\ ParseDone
    /\ ListingAAB
    /\ Get(all_blog_links[1], "href") # Get(all_blog_links[2], "href")
    /\ Len(articles) = 2

\* C2: every accepted record has a title that is no navigation label and is
\* not shorter than 5 characters, and the title is the text of an anchor to the
\* record's link; so an anchor "Read more" to /blog/c leaves no record.
C2_TitlesAcceptable ==
    \A i \in 1..Len(articles) :
        /\ articles[i].title \notin {<<"B", "l", "o", "g">>, <<"H", "o", "m", "e">>, <<"R", "e", "a", "d", " ", "m", "o", "r", "e">>, <<"L", "e", "a", "r", "n", " ", "m", "o", "r", "e">>}
        /\ Len(articles[i].title) >= 5
        /\ \E k \in 1..Len(all_blog_links) :
              LinkOf(k) = articles[i].link /\ TextOf(k) = articles[i].title

\* a listing with the anchor "Read more" to /blog/c and another article has
\* been parsed: one record, none for /blog/c
C2_Witness ==
    /\ ParseDone
    /\ \E k \in 1..Len(all_blog_links) :
          LinkOf(k) = <<"h", "t", "t", "p", "s", ":", "/", "/", "c", "l", "a", "u", "d", "e", ".", "c", "o", "m", "/", "b", "l", "o", "g", "/", "c">> /\ TextOf(k) = <<"R", "e", "a", "d", " ", "m", "o", "r", "e">>
    /\ Len(articles) = 1
    /\ RecordsFor(<<"h", "t", "t", "p", "s", ":", "/", "/", "c", "l", "a", "u", "d", "e", ".", "c", "o", "m", "/", "b", "l", "o", "g", "/", "c">>) = {}

\* the first selected anchor, in document order, to the link of the k-th
FirstTo(k) == CHOOSE f \in 1..k : LinkOf(f) = LinkOf(k) /\ \A g \in 1..(f - 1) : LinkOf(g) # LinkOf(k)

\* C10: a link is in the seen-set as soon as its first anchor has been visited,
\* before any title check; so when the first anchor to a link has no acceptable
\* title, no record for the link is emitted and no article page of it is
\* requested, also after a later anchor to the link with an acceptable title
\* has been visited.
C10_FirstAnchorDecides ==
    \A k \in 1..Len(all_blog_links) :
        (k < idx /\ ~IsIndexPage(LinkOf(k))) =>
            /\ LinkOf(k) \in seen_links
            /\ ~Acceptable(TextOf(FirstTo(k))) =>
                  /\ RecordsFor(LinkOf(k)) = {}
                  /\ \A r \in 1..Len(requests) : requests[r].url # LinkOf(k)

\* the first anchor to /blog/a had no acceptable title, a later one had, the
\* parse is over and other article pages were requested
C10_Witness ==
    /\ ParseDone
    /\ \E k \in 1..Len(all_blog_links) :
          /\ FirstTo(k) < k
          /\ ~Acceptable(TextOf(FirstTo(k)))
          /\ Acceptable(TextOf(k))
          /\ RecordsFor(LinkOf(k)) = {}
    /\ requests # <<>>


-----------------------------------------------------------------------------
(* Properties of the feed assembly *)

\* generate_rss_feed has returned its feed
FeedAssembled == pc = "save" \/ (pc = "done" /\ save_invoked)

\* the place of a feed entry's record in the parser's output
Discovered(entry) == CHOOSE i \in 1..Len(articles) : articles[i].link = entry.link

\* a is strictly after b: compared field by field, year first
After(a, b) ==
    LET differ == {k \in 1..7 : a[k] # b[k]}
    IN  differ # {} /\ a[CHOOSE k \in differ : \A j \in differ : k <= j]
                       > b[CHOOSE k \in differ : \A j \in differ : k <= j]

\* C3: entries are added newest first: an entry whose date is strictly after
\* another's is added before it, and entries of equal date are added in the
\* order the listing parser discovered them.
C3_NewestFirstStable ==
    FeedAssembled =>
        \A i, j \in 1..Len(feed) :
            /\ After(feed[i].published, feed[j].published) => i < j
            /\ (feed[i].published = feed[j].published
                /\ Discovered(feed[i]) < Discovered(feed[j])) => i < j

\* a feed of three entries: the newest was found last by the parser and is
\* added first, the other two have the same date
C3_Witness ==
    /\ FeedAssembled
    /\ Len(feed) = 3
    /\ Discovered(feed[1]) = 3
    /\ After(feed[1].published, feed[2].published)
    /\ feed[2].published = feed[3].published

\* what the validator requires of a record
ValidRecord(a) ==
    /\ a.title # None /\ Len(a.title) >= 5
    /\ a.link # None
    /\ (SubSeq(a.link, 1, 4) = <<"h", "t", "t", "p">> \/ SubSeq(a.link, 1, 1) = <<"/">>)
    /\ a.date # <<>>

\* C7: once the run has reached assembly, every record handed to
\* generate_rss_feed satisfies the validator's conditions, and the feed holds
\* exactly one entry per such record: as many entries as records, each record
\* entered with its own fields.
C7_FeedIsValidatedRecords ==
    /\ pc \in {"assemble", "save"} \/ FeedAssembled =>
          \A i \in 1..Len(articles) : ValidRecord(articles[i])
    /\ FeedAssembled =>
          /\ Len(feed) = Len(articles)
          /\ \A i \in 1..Len(articles) :
                Cardinality({j \in 1..Len(feed) :
                    /\ feed[j].link = articles[i].link
                    /\ feed[j].title = articles[i].title
                    /\ feed[j].description = articles[i].description
                    /\ feed[j].published = articles[i].date}) = 1

\* a feed of two entries assembled from a listing where a third candidate,
\* with a relative link, went through the resolvers and failed validation
C7_Witness ==
    /\ FeedAssembled
    /\ Len(feed) = 2
    /\ \E r \in 1..Len(requests) : requests[r].url = <<".", ".", "/", "b", "l", "o", "g", "/", "x">>


-----------------------------------------------------------------------------
(* Properties of main() *)

\* C4: main never raises and answers True or False.  When the listing fetch,
\* the listing parse or the assembly raised, or the parse gave no record,
\* save_rss_feed is never called, no file is written and main answers False;
\* main answers True only after save_rss_feed has written the file.
C4_MainReportsFailure ==
    /\ result \in {"running", "True", "False"}
    /\ pc = "done" <=> result # "running"
    /\ (raised_in \in {"fetch", "parse", "assemble"} \/ (ParseDone /\ articles = <<>>)) =>
          /\ ~save_invoked
          /\ file = "absent"
          /\ pc = "done" => result = "False"
    /\ result = "True" => (save_invoked /\ file = "written" /\ raised_in = "none")
    /\ save_invoked => (FeedAssembled /\ articles # <<>>)

\* main has answered False for a listing whose anchors gave no record, after
\* an article page was requested; nothing was saved
C4_Witness ==
    /\ pc = "done"
    /\ result = "False"
    /\ raised_in = "none"
    /\ articles = <<>>
    /\ requests # <<>>
    /\ ~save_invoked

-----------------------------------------------------------------------------
(* Properties of the enrichment inside the parser *)

\* the date fetch for the given request raised; its record is in the output
\* with the time of that moment as its date
IncludedWithNow(e) ==
    \E i \in 1..Len(articles) :
        articles[i].link = e.url /\ articles[i].date = [Epoch EXCEPT ![6] = e.at]

C6_DescriptionNeverEmpty ==
    \A i \in 1..Len(articles) :
        /\ articles[i].description # <<>>
        /\ articles[i].description # None
        /\ \A r \in desc_results :
              (r.link = articles[i].link /\ r.found = <<>>) =>
                  articles[i].description = articles[i].title

\* two records: the resolver gave the empty string for the first, whose
\* description is its title, and a summary for the second
C6_Witness ==
    /\ Len(articles) = 2
    /\ [link |-> articles[1].link, found |-> <<>>] \in desc_results
    /\ articles[1].description = articles[1].title
    /\ articles[2].description = <<"A", " ", "s", "u", "m", "m", "a", "r", "y">>


-----------------------------------------------------------------------------
(* Properties of the resolvers *)

\* the candidate string the k-th selector yields on a page: "" when the
\* selector finds no element or the element carries no string
Candidate(page, k) ==
    LET elem == SelectOne(page, date_selectors[k])
    IN  IF elem = <<>> THEN <<>>
        ELSE IF DateStr(elem[1]) = None THEN <<>> ELSE DateStr(elem[1])

\* the formats that parse a string
Parsing(str) == {f \in 1..Len(date_formats) : Strptime(str, date_formats[f]) # ValueError}

Least(S) == CHOOSE x \in S : \A y \in S : x <= y

\* a string parsed with the first format that parses it
Parsed(str) == Strptime(str, date_formats[Least(Parsing(str))])

\* the selectors that yield a non-empty string on a page
Yielding(page) == {k \in 1..Len(date_selectors) : Candidate(page, k) # <<>>}

\* the selectors that yield a string some format parses
Dated(page) == {k \in Yielding(page) : Parsing(Candidate(page, k)) # {}}

\* C8 as stated: the resolver stops at the first selector that yields a
\* non-empty string; the result is that string parsed with the first format
\* that parses it, and the current time when no format does or no selector
\* yields a string.
C8_AsStated ==
    (r_pc = "date" /\ r_resp.ok) =>
        r_date = IF Yielding(r_resp.page) = {} THEN NowAt(clock)
                 ELSE LET str == Candidate(r_resp.page, Least(Yielding(r_resp.page)))
                      IN  IF Parsing(str) = {} THEN NowAt(clock) ELSE Parsed(str)

\* C8, amended: the resolver goes through its selectors in order and stops at
\* the first selector that yields a non-empty string which one of the formats
\* parses; the result is that string parsed with the first format that parses
\* it.  A selector whose string no format parses is passed over and the later
\* selectors are consulted; the result is the current time only when no
\* selector yields a string that parses, or when the fetch raised.
C8_FirstParsableSelector ==
    r_pc = "date" =>
        r_date = IF ~r_resp.ok \/ Dated(r_resp.page) = {} THEN NowAt(clock)
                 ELSE Parsed(Candidate(r_resp.page, Least(Dated(r_resp.page))))

\* the first selector yielded a string no format parses and the date came
\* from a later selector
C8_Witness ==
    /\ r_pc = "date"
    /\ r_resp.ok
    /\ Dated(r_resp.page) # {}
    /\ Least(Yielding(r_resp.page)) < Least(Dated(r_resp.page))
    /\ r_date # NowAt(clock)
    /\ r_date = Parsed(Candidate(r_resp.page, Least(Dated(r_resp.page))))

\* the content of the first meta tag with the given attribute, "" when there
\* is no such tag or it has no content
MetaContent(page, attr, val) ==
    LET tags == {i \in 1..Len(page) : page[i].tag = "meta" /\ <<attr, val>> \in page[i].attrs}
        with == {p \in page[Least(tags)].attrs : p[1] = "content"}
    IN  IF tags = {} \/ with = {} THEN <<>> ELSE (CHOOSE p \in with : TRUE)[2]

\* the first paragraph whose stripped text exceeds 50 characters, cut to 500
\* characters; "" when there is none
LongParagraph(page) ==
    LET long == {i \in 1..Len(page) : page[i].tag = "p" /\ Len(Strip(page[i].text)) > 50}
        text == Strip(page[Least(long)].text)
    IN  IF long = {} THEN <<>>
        ELSE IF Len(text) > 500 THEN SubSeq(text, 1, 500) ELSE text

\* C9: the description is the content of the description meta tag when that
\* is non-empty, otherwise the content of the Open-Graph description meta tag
\* when that is non-empty, otherwise the first paragraph whose stripped text
\* exceeds 50 characters, cut to 500 characters, otherwise the empty string.
C9_PriorityChain ==
    (r_pc = "description" /\ r_resp.ok) =>
        r_desc = IF MetaContent(r_resp.page, "name", <<"d", "e", "s", "c", "r", "i", "p", "t", "i", "o", "n">>) # <<>>
                 THEN MetaContent(r_resp.page, "name", <<"d", "e", "s", "c", "r", "i", "p", "t", "i", "o", "n">>)
                 ELSE IF MetaContent(r_resp.page, "property", <<"o", "g", ":", "d", "e", "s", "c", "r", "i", "p", "t", "i", "o", "n">>) # <<>>
                 THEN MetaContent(r_resp.page, "property", <<"o", "g", ":", "d", "e", "s", "c", "r", "i", "p", "t", "i", "o", "n">>)
                 ELSE LongParagraph(r_resp.page)


====
